---- MODULE Spec2Model ----
(***************************************************************************)
(* Payment-webhook ingestion and print-delivery pipeline of Server_SKG.     *)
(*                                                                         *)
(* The repository holds successive revisions of one Express server.  The   *)
(* model covers the two revisions that keep a bill until it is confirmed:  *)
(*   "part_003"  src/unnamed/part_003 (sanitised, validated, middleware    *)
(*               authentication), and                                      *)
(*   "Server.js" the first program of src/Server.js (lines 1-557), which   *)
(*               has the same pipeline plus POST /test/mark-unprinted.     *)
(* The revision is fixed in Init and never changes.                        *)
(*                                                                         *)
(* One action is one request handler run to completion (Node runs each     *)
(* synchronous handler without interleaving).  Time is Date.now() counted  *)
(* in units of two hours; Tick advances it between requests.              *)
(*                                                                         *)
(* A JS Map is a sequence of [k, v] entries in insertion order.  Strings   *)
(* the code edits character by character (token numbers) are sequences of  *)
(* one-character strings.  Bill fields that are copied from the event and  *)
(* never read again by a handler (orderId, method, customer*, time, date)  *)
(* are left out of the Bill record.                                        *)
(***************************************************************************)
EXTENDS Integers, Sequences, FiniteSets, TLC

VARIABLES
    variant,        \* which revision of the server is running
    now,            \* Date.now(), in units of two hours
    paidBills,      \* Map paymentId -> Bill
    pendingTokens,  \* Map tokenNumber -> PendingToken
    response,       \* the response to the latest request, with the request's name
    insertions,     \* history: per payment id, how many times a Bill was inserted
    streak,         \* history: run of consecutive deliveries of one capture event
    lastPoll,       \* history: the Bill the latest poll returned, until confirmed
    e2e,            \* history: progress through the end-to-end scenario
    polls,          \* history: per payment id, the polls that returned its Bill
    confirmed,      \* history: the payment ids a confirm has succeeded for
    orders,         \* the create-order calls suspended on the payment gateway
    compared        \* the latest signature comparison and the work it took

vars == <<variant, now, paidBills, pendingTokens, response, insertions, streak,
          lastPoll, e2e, polls, confirmed, orders, compared>>

-----------------------------------------------------------------------------
(* Bounds of the model *)

MaxTime == 3        \* the clock runs from StartTime to MaxTime
MaxAttempts == 2    \* a poll is not taken once it would exceed this count
MaxStreak == 3      \* longest run of identical deliveries that is counted
MaxOrders == 1      \* create-order calls suspended at one time
SigLen == 4         \* hex digits of a signature (64 in the program)

-----------------------------------------------------------------------------
(* Program constants *)

StartTime == 1          \* Date.now() is positive
BillRetention == 1      \* 2 * 60 * 60 * 1000 ms: one unit of time
TokenRetention == 12    \* 24 * 60 * 60 * 1000 ms
MaxTokenLen == 20       \* substring(0, 20)
MaxAmount == 1000000    \* validateAmount upper bound
Undefined == -1         \* a field the object literal does not set

Variants == {"part_003", "Server.js"}

RAZORPAY_WEBHOOK_SECRET == "whsec"
ANDROID_API_KEY == "android-key"

-----------------------------------------------------------------------------
(* JS Map as a sequence of entries *)

MapHas(m, k) == \E i \in DOMAIN m : m[i].k = k

MapGet(m, k) == m[CHOOSE i \in DOMAIN m : m[i].k = k].v
\* MapSet that moves a key it updates to the end of the insertion order
MapSet_MovesToEnd(m, k, v) ==
    Append(SelectSeq(m, LAMBDA e : e.k # k), [k |-> k, v |-> v])

MapSet(m, k, v) ==
    IF MapHas(m, k)
    THEN [i \in DOMAIN m |-> IF m[i].k = k THEN [k |-> k, v |-> v] ELSE m[i]]
    ELSE Append(m, [k |-> k, v |-> v])

MapValues(m) == [i \in DOMAIN m |-> m[i].v]

MapKeys(m) == {m[i].k : i \in DOMAIN m}

-----------------------------------------------------------------------------
(* Input validation and sanitisation *)

AlphaNum == {"0", "1", "2", "3", "4", "5", "6", "7", "8", "9",
             "U", "n", "k", "o", "w", "T", "a", "b"}

IsAlphaNum(c) == c \in AlphaNum

Truncate(s, n) == IF Len(s) > n THEN SubSeq(s, 1, n) ELSE s
\* sanitizeTokenNumber without the substring(0, 20)
sanitizeTokenNumber_NoTruncation(token) == SelectSeq(token, IsAlphaNum)

sanitizeTokenNumber(token) ==
    Truncate(SelectSeq(token, IsAlphaNum), MaxTokenLen)

Unknown == <<"U", "n", "k", "n", "o", "w", "n">>

\* payment.amount / 100: currency units with two decimals
Div100(minor) == [units |-> minor \div 100, paise |-> minor % 100]

-----------------------------------------------------------------------------
(* Requests the environment can send *)

PaymentIds == {"pay_1", "pay_42"}

\* The parsed form of a raw webhook body.  json: JSON.parse succeeds; entity:
\* payload.payload.payment.entity exists; token_number: notes.token_number,
\* <<>> when the notes carry none.
Body(json, event, entity, id, minor, token) ==
    [json |-> json, event |-> event, entity |-> entity, id |-> id,
     amount |-> minor, token_number |-> token]

CaptureBodies ==
    { Body(TRUE, "payment.captured", TRUE, "pay_42", 12000, <<"7", "-">>),
      Body(TRUE, "payment.captured", TRUE, "pay_1", 2550, <<>>) }

Bodies ==
    CaptureBodies \cup
    { Body(TRUE, "payment.failed", TRUE, "pay_42", 12000, <<"7", "-">>),
      Body(TRUE, "payment.captured", FALSE, "pay_1", 2550, <<>>),
      Body(FALSE, "payment.captured", TRUE, "pay_1", 2550, <<>>) }

\* HMAC-SHA256 as a symbolic tag: equal exactly when key and message are equal
Hmac(key, msg) == <<key, msg>>

NoSignature == <<>>

Capture42 == Body(TRUE, "payment.captured", TRUE, "pay_42", 12000, <<"7", "-">>)

Capture1 == Body(TRUE, "payment.captured", TRUE, "pay_1", 2550, <<>>)

\* The webhook requests the model sends, as <<signature header, raw body>>:
\* every body with its HMAC under the shared secret, and a capture event with
\* no signature, with an HMAC under a guessed key, and with the valid
\* signature of another body (a replay).
WebhookRequests ==
    {<<Hmac(RAZORPAY_WEBHOOK_SECRET, b), b>> : b \in Bodies} \cup
    { <<NoSignature, Capture42>>,
      <<Hmac("guess", Capture42), Capture42>>,
      <<Hmac(RAZORPAY_WEBHOOK_SECRET, Capture1), Capture42>> }

-----------------------------------------------------------------------------
(* Responses *)

NoBill == [none |-> TRUE]

Resp(op, status, text, req, bill, count) ==
    [op |-> op, status |-> status, text |-> text, req |-> req,
     bill |-> bill, unprintedBills |-> count]

NoBody == Body(FALSE, "", FALSE, "", 0, <<>>)

\* What the environment sent to the webhook: whether the signature header was
\* absent, the HMAC of the body under the shared secret, or anything else;
\* and the body, when it was correctly signed.
WebhookRequest(sig, body) ==
    LET class == IF sig = NoSignature THEN "absent"
                 ELSE IF sig = Hmac(RAZORPAY_WEBHOOK_SECRET, body) THEN "valid"
                 ELSE "invalid"
    IN  [sig |-> class, body |-> IF class = "valid" THEN body ELSE NoBody]

-----------------------------------------------------------------------------
(* POST /razorpay-webhook *)

\* SignatureMatches that accepts every signature that is present
SignatureMatches_Always(receivedSignature, expectedSignature) == TRUE

SignatureMatches(receivedSignature, expectedSignature) ==
    receivedSignature = expectedSignature

\* JSON.parse(rawBody) returns
ParsesAsJson(rawBody) == rawBody.json

\* IsCaptureEvent that takes every event for a capture
IsCaptureEvent_Always(payload) == TRUE

\* payload.event !== "payment.captured" is false
IsCaptureEvent(payload) == payload.event = "payment.captured"

\* HasEntity with the read made optional (payload.payload?.payment?.entity)
HasEntity_Always(payload) == TRUE

\* payload.payload.payment.entity and payment.notes are read without a TypeError
HasEntity(payload) == payload.entity
\* IsDuplicate without the look-up: every capture event inserts
IsDuplicate_Never(bills, id) == FALSE

IsDuplicate(bills, id) == MapHas(bills, id)

\* payment.notes?.token_number || 'Unknown', sanitised in part_003 only
WebhookTokenNumber(payment) ==
    LET raw == IF payment.token_number = <<>> THEN Unknown
               ELSE payment.token_number
    IN  IF variant = "part_003" THEN sanitizeTokenNumber(raw) ELSE raw

\* NewBill with the creation counted as a print attempt
NewBill_CountsCreation(payment, tokenNumber, items) ==
    [paymentId |-> payment.id,
     tokenNumber |-> tokenNumber,
     amount |-> Div100(payment.amount),
     items |-> items,
     timestamp |-> now,
     printed |-> FALSE,
     printAttempts |-> 1,
     lastPrintAttempt |-> Undefined,
     printConfirmedAt |-> Undefined]
\* NewBill stored as already printed
NewBill_Printed(payment, tokenNumber, items) ==
    [paymentId |-> payment.id,
     tokenNumber |-> tokenNumber,
     amount |-> Div100(payment.amount),
     items |-> items,
     timestamp |-> now,
     printed |-> TRUE,
     printAttempts |-> 0,
     lastPrintAttempt |-> Undefined,
     printConfirmedAt |-> Undefined]

NewBill(payment, tokenNumber, items) ==
    [paymentId |-> payment.id,
     tokenNumber |-> tokenNumber,
     amount |-> Div100(payment.amount),
     items |-> items,
     timestamp |-> now,
     printed |-> FALSE,
     printAttempts |-> 0,
     lastPrintAttempt |-> Undefined,
     printConfirmedAt |-> Undefined]
\* MarkPaid recording the payment but leaving the status as it was
MarkPaid_KeepsStatus(tokenData, id) ==
    [tokenData EXCEPT !.paymentId = id, !.paidAt = now]

MarkPaid(tokenData, id) ==
    [tokenData EXCEPT !.status = "paid", !.paymentId = id, !.paidAt = now]

WebhookStore(payment) ==
    LET tokenNumber == WebhookTokenNumber(payment)
        found == MapHas(pendingTokens, tokenNumber)
        items == IF found THEN MapGet(pendingTokens, tokenNumber).items ELSE <<>>
    IN  /\ paidBills' = MapSet(paidBills, payment.id,
                               NewBill(payment, tokenNumber, items))
        /\ pendingTokens' =
              IF found
              THEN MapSet(pendingTokens, tokenNumber,
                          MarkPaid(MapGet(pendingTokens, tokenNumber), payment.id))
              ELSE pendingTokens

WebhookHandler(receivedSignature, rawBody) ==
    LET R(status, text) == Resp("webhook", status, text,
                                WebhookRequest(receivedSignature, rawBody),
                                NoBill, Undefined)
    IN
    IF receivedSignature = NoSignature
    THEN /\ response' = R(400, "Missing signature")
         /\ UNCHANGED <<paidBills, pendingTokens>>
    ELSE IF ~SignatureMatches(receivedSignature,
                              Hmac(RAZORPAY_WEBHOOK_SECRET, rawBody))
    THEN /\ response' = R(400, "Invalid signature")
         /\ UNCHANGED <<paidBills, pendingTokens>>
    ELSE IF ~ParsesAsJson(rawBody)
    THEN /\ response' = R(400, "Error")
         /\ UNCHANGED <<paidBills, pendingTokens>>
    ELSE IF ~IsCaptureEvent(rawBody)
    THEN /\ response' = R(200, "OK")
         /\ UNCHANGED <<paidBills, pendingTokens>>
    ELSE IF ~HasEntity(rawBody)
    THEN /\ response' = R(400, "Error")
         /\ UNCHANGED <<paidBills, pendingTokens>>
    ELSE IF IsDuplicate(paidBills, rawBody.id)
    THEN /\ response' = R(200, "Duplicate")
         /\ UNCHANGED <<paidBills, pendingTokens>>
    ELSE /\ WebhookStore(rawBody)
         /\ response' = R(200, "success")

-----------------------------------------------------------------------------
(* Authentication of the print client *)

\* A header value: absent, or a token with or without a leading "Bearer ".
NoHeader == [present |-> FALSE, bearer |-> FALSE, token |-> ""]

HeaderValue(bearer, token) == [present |-> TRUE, bearer |-> bearer, token |-> token]

Headers(xApiKey, authorization, xAndroidKey) ==
    [x_api_key |-> xApiKey, authorization |-> authorization,
     x_android_key |-> xAndroidKey]

KeyHeaders == Headers(HeaderValue(FALSE, ANDROID_API_KEY), NoHeader, NoHeader)

BearerHeaders == Headers(NoHeader, HeaderValue(TRUE, ANDROID_API_KEY), NoHeader)

WrongHeaders == Headers(NoHeader, NoHeader, HeaderValue(FALSE, "wrong-key"))

NoHeaders == Headers(NoHeader, NoHeader, NoHeader)

\* x-android-key carries the key behind "Bearer "
AndroidHeaders == Headers(NoHeader, NoHeader, HeaderValue(TRUE, ANDROID_API_KEY))

\* x-api-key carries something else, x-android-key carries the key
MixedHeaders ==
    Headers(HeaderValue(FALSE, "wrong-key"), NoHeader,
            HeaderValue(FALSE, ANDROID_API_KEY))

\* The header sets the model sends
HeaderSets ==
    {KeyHeaders, BearerHeaders, AndroidHeaders, MixedHeaders, WrongHeaders,
     NoHeaders}

\* a || b || c: the first header that is present
FirstPresent(headers) ==
    IF headers.x_api_key.present THEN headers.x_api_key
    ELSE IF headers.authorization.present THEN headers.authorization
    ELSE headers.x_android_key

\* authToken?.replace(/^Bearer\s+/i, '')
StripBearer(h) == h.token

\* authenticateAndroid letting every request pass that carries a header
authenticateAndroid_AnyToken(headers) == FirstPresent(headers).present

authenticateAndroid(headers) ==
    LET authToken == FirstPresent(headers)
    IN  /\ authToken.present
        /\ StripBearer(authToken) = ANDROID_API_KEY

-----------------------------------------------------------------------------
(* GET /api/latest-paid-bill *)

\* bill.timestamp && bill.timestamp < twoHoursAgo
\* IsExpired sparing the Bills that are not yet printed
IsExpired_PrintedOnly(bill, twoHoursAgo) ==
    bill.printed /\ bill.timestamp # 0 /\ bill.timestamp < twoHoursAgo

IsExpired(bill, twoHoursAgo) ==
    bill.timestamp # 0 /\ bill.timestamp < twoHoursAgo

\* EvictOldBills without the deletion
EvictOldBills_KeepAll(bills, twoHoursAgo) == bills

EvictOldBills(bills, twoHoursAgo) ==
    SelectSeq(bills, LAMBDA e : ~IsExpired(e.v, twoHoursAgo))

\* Array.prototype.sort with (a, b) => a.timestamp - b.timestamp: stable
RECURSIVE SortByTimestamp(_)
SortByTimestamp(s) ==
    IF s = <<>> THEN <<>>
    ELSE LET rest == SortByTimestamp(Tail(s))
             b == Head(s)
             before == SelectSeq(rest, LAMBDA x : x.timestamp < b.timestamp)
             after == SelectSeq(rest, LAMBDA x : x.timestamp >= b.timestamp)
         IN  before \o <<b>> \o after

\* UnprintedBills without the filter on printed
UnprintedBills_All(bills) == SortByTimestamp(MapValues(bills))

\* UnprintedBills with the comparator swapped (b.timestamp - a.timestamp)
UnprintedBills_NewestFirst(bills) ==
    LET asc == SortByTimestamp(SelectSeq(MapValues(bills), LAMBDA b : ~b.printed))
    IN  [i \in 1..Len(asc) |-> asc[Len(asc) + 1 - i]]
\* UnprintedBills leaving out the Bills already handed out once
UnprintedBills_SkipsAttempted(bills) ==
    SortByTimestamp(SelectSeq(MapValues(bills),
                              LAMBDA b : ~b.printed /\ b.printAttempts = 0))

UnprintedBills(bills) ==
    SortByTimestamp(SelectSeq(MapValues(bills), LAMBDA b : ~b.printed))
\* The selection of the earlier revisions: the first Bill, in the Map's
\* insertion order, that is not printed
FirstUnprinted(bills) ==
    SelectSeq(MapValues(bills), LAMBDA b : ~b.printed)[1]

\* SelectBill taking the last element instead of the first
SelectBill_Last(unprintedBills) == unprintedBills[Len(unprintedBills)]

SelectBill(unprintedBills) == unprintedBills[1]

\* RecordAttempt that also marks the Bill printed (mark printed on poll)
RecordAttempt_MarkPrinted(bill) ==
    [bill EXCEPT !.printAttempts = @ + 1, !.lastPrintAttempt = now,
                 !.printed = TRUE]

\* RecordAttempt that does not stamp the attempt
RecordAttempt_NoStamp(bill) ==
    [bill EXCEPT !.printAttempts = @ + 1]

RecordAttempt(bill) ==
    [bill EXCEPT !.printAttempts = @ + 1, !.lastPrintAttempt = now]

\* The fields of the JSON the poll answers with
BillProjection(bill) ==
    [paymentId |-> bill.paymentId,
     tokenNumber |-> bill.tokenNumber,
     amount |-> bill.amount,
     items |-> bill.items,
     timestamp |-> bill.timestamp,
     printed |-> bill.printed,
     serverTimestamp |-> now]

PollHandler(headers) ==
    IF ~authenticateAndroid(headers)
    THEN /\ response' = Resp("poll", 403, "INVALID_API_KEY", "", NoBill, Undefined)
         /\ UNCHANGED <<paidBills, pendingTokens>>
    ELSE LET kept == EvictOldBills(paidBills, now - BillRetention)
             unprintedBills == UnprintedBills(kept)
         IN  /\ UNCHANGED pendingTokens
             /\ IF Len(unprintedBills) > 0
                THEN LET bill == RecordAttempt(SelectBill(unprintedBills))
                     IN  /\ paidBills' = MapSet(kept, bill.paymentId, bill)
                         /\ response' = Resp("poll", 200, "bill", "",
                                             BillProjection(bill), Undefined)
                ELSE /\ paidBills' = kept
                     /\ response' = Resp("poll", 204, "", "", NoBill, Undefined)

\* The attempt counter is capped: a poll that would push it past MaxAttempts
\* is not taken.
PollWithinBound(headers) ==
    authenticateAndroid(headers) =>
        LET unprintedBills ==
                UnprintedBills(EvictOldBills(paidBills, now - BillRetention))
        IN  Len(unprintedBills) > 0 =>
                SelectBill(unprintedBills).printAttempts < MaxAttempts

-----------------------------------------------------------------------------
(* POST /api/confirm-print *)

NoPaymentId == ""

SetPrinted(bill) == [bill EXCEPT !.printed = TRUE, !.printConfirmedAt = now]

\* CountUnprinted counting every stored Bill
CountUnprinted_All(bills) == Len(bills)

CountUnprinted(bills) ==
    Len(SelectSeq(MapValues(bills), LAMBDA b : ~b.printed))

\* The confirmations the model sends, as <<headers, paymentId>>
ConfirmRequests ==
    {<<KeyHeaders, p>> : p \in PaymentIds \cup {NoPaymentId}} \cup
    {<<BearerHeaders, "pay_42">>, <<WrongHeaders, "pay_1">>,
     <<NoHeaders, "pay_42">>, <<MixedHeaders, "pay_42">>,
     <<AndroidHeaders, "pay_1">>}

\* MissingPaymentId without the check
MissingPaymentId_Never(paymentId) == FALSE

\* !paymentId
MissingPaymentId(paymentId) == paymentId = NoPaymentId

ConfirmHandler(headers, paymentId) ==
    IF ~authenticateAndroid(headers)
    THEN /\ response' = Resp("confirm", 403, "INVALID_API_KEY", NoPaymentId,
                             NoBill, Undefined)
         /\ UNCHANGED <<paidBills, pendingTokens>>
    ELSE IF MissingPaymentId(paymentId)
    THEN /\ response' = Resp("confirm", 400, "Missing paymentId", paymentId,
                             NoBill, Undefined)
         /\ UNCHANGED <<paidBills, pendingTokens>>
    ELSE IF MapHas(paidBills, paymentId)
    THEN /\ paidBills' = MapSet(paidBills, paymentId,
                                SetPrinted(MapGet(paidBills, paymentId)))
         /\ response' = Resp("confirm", 200, "Print confirmed", paymentId,
                             NoBill, CountUnprinted(paidBills'))
         /\ UNCHANGED pendingTokens
    ELSE /\ response' = Resp("confirm", 404, "Bill not found", paymentId,
                             NoBill, Undefined)
         /\ UNCHANGED <<paidBills, pendingTokens>>

-----------------------------------------------------------------------------
(* POST /test/mark-unprinted (Server.js only, no authentication) *)

ResetPrinted(bill) == [bill EXCEPT !.printed = FALSE, !.printAttempts = 0]

MarkUnprintedHandler(paymentId) ==
    IF paymentId = NoPaymentId
    THEN /\ response' = Resp("mark-unprinted", 400, "Missing paymentId",
                             paymentId, NoBill, Undefined)
         /\ UNCHANGED <<paidBills, pendingTokens>>
    ELSE IF MapHas(paidBills, paymentId)
    THEN /\ paidBills' = MapSet(paidBills, paymentId,
                                ResetPrinted(MapGet(paidBills, paymentId)))
         /\ response' = Resp("mark-unprinted", 200, "Bill marked as unprinted",
                             paymentId, NoBill, Undefined)
         /\ UNCHANGED pendingTokens
    ELSE /\ response' = Resp("mark-unprinted", 404, "Bill not found",
                             paymentId, NoBill, Undefined)
         /\ UNCHANGED <<paidBills, pendingTokens>>

-----------------------------------------------------------------------------
(* POST /api/create-token and GET /api/pending-tokens *)

\* A JSON amount: absent, a number, or a string that is no number
NoAmount == [present |-> FALSE, numeric |-> FALSE, num |-> 0]

Num(n) == [present |-> TRUE, numeric |-> TRUE, num |-> n]

NotNumeric == [present |-> TRUE, numeric |-> FALSE, num |-> 0]

\* parseFloat(amount): a number, or NaN
parseFloat(amount) == [nan |-> ~amount.numeric, num |-> amount.num]

Token7 == <<"7", "-">>

\* The registrations the model sends, as <<headers, token_number, amount, items>>
CreateTokenRequests ==
    { <<KeyHeaders, Token7, Num(120), <<"tea">> >>,
      <<KeyHeaders, <<>>, Num(120), <<"tea">> >>,
      <<KeyHeaders, Token7, NoAmount, <<"tea">> >>,
      <<WrongHeaders, Token7, Num(120), <<"tea">> >> }

MaxItems == 100     \* items.slice(0, 100)

\* !token_number || !amount
MissingFields(token_number, amount) ==
    token_number = <<>> \/ ~amount.present \/ (amount.numeric /\ amount.num = 0)

\* validateAmount throws unless parseFloat gives 0 < num <= 1000000
AmountIsValid(amount) ==
    LET num == parseFloat(amount)
    IN  ~num.nan /\ num.num > 0 /\ num.num <= MaxAmount

\* the model's item strings are shorter than the 50 characters kept per item
validateItems(items) == Truncate(items, MaxItems)

NewToken(tokenNumber, amount, items) ==
    [tokenNumber |-> tokenNumber,
     amount |-> amount,
     items |-> items,
     createdAt |-> now,
     status |-> "pending",
     paymentId |-> NoPaymentId,
     paidAt |-> Undefined]

CreateTokenHandler(headers, token_number, amount, items) ==
    LET R(status, text) == Resp("create-token", status, text, <<>>,
                                NoBill, Undefined)
    IN
    IF ~authenticateAndroid(headers)
    THEN /\ response' = R(403, "INVALID_API_KEY")
         /\ UNCHANGED <<paidBills, pendingTokens>>
    ELSE IF MissingFields(token_number, amount)
    THEN /\ response' = R(400, "Missing required fields")
         /\ UNCHANGED <<paidBills, pendingTokens>>
    ELSE IF variant = "part_003" /\ ~AmountIsValid(amount)
    THEN /\ response' = R(500, "Failed to create token")
         /\ UNCHANGED <<paidBills, pendingTokens>>
    ELSE LET key == IF variant = "part_003"
                    THEN sanitizeTokenNumber(token_number) ELSE token_number
             kept == IF variant = "part_003" THEN validateItems(items) ELSE items
         IN  /\ pendingTokens' = MapSet(pendingTokens, key,
                                        NewToken(key, parseFloat(amount), kept))
             /\ response' = R(200, "Token created successfully")
             /\ UNCHANGED paidBills

\* Date.now() - token.createdAt > twentyFourHours
TokenExpired(token) == now - token.createdAt > TokenRetention
\* EvictOldTokens keeping the tokens that are already paid
EvictOldTokens_PendingOnly(tokens) ==
    SelectSeq(tokens, LAMBDA e : ~(TokenExpired(e.v) /\ e.v.status = "pending"))

EvictOldTokens(tokens) == SelectSeq(tokens, LAMBDA e : ~TokenExpired(e.v))

\* The fields of a PendingToken that the listing sends
TokenProjection(t) ==
    [token_number |-> t.tokenNumber, amount |-> t.amount, items |-> t.items]

ListedTokens(tokens) ==
    LET pending == SelectSeq(MapValues(tokens), LAMBDA t : t.status = "pending")
    IN  [i \in DOMAIN pending |-> TokenProjection(pending[i])]
\* PendingTokensHandler with the eviction pass of the poll run on listing too
PendingTokensHandler_EvictsBills ==
    /\ pendingTokens' = EvictOldTokens(pendingTokens)
    /\ response' = Resp("pending-tokens", 200, "tokens",
                        ListedTokens(pendingTokens'), NoBill, Undefined)
    /\ paidBills' = EvictOldBills(paidBills, now - BillRetention)

PendingTokensHandler ==
    /\ pendingTokens' = EvictOldTokens(pendingTokens)
    /\ response' = Resp("pending-tokens", 200, "tokens",
                        ListedTokens(pendingTokens'), NoBill, Undefined)
    /\ UNCHANGED paidBills

-----------------------------------------------------------------------------
(* POST /api/create-order (public).  The handler is async: it runs to the   *)
(* call of razorpay.orders.create, is suspended there, and is resumed when  *)
(* the gateway has answered or failed.                                      *)

Token9 == <<"9">>

\* The token_number values the model sends
CreateOrderRequests == {Token7, Token9, <<>>}

\* Math.round(token.amount * 100)
Times100(amount) == [nan |-> amount.nan, num |-> amount.num * 100]

\* The call that is in flight: the arguments of razorpay.orders.create
OrderCall(tokenNumber, token) ==
    [token_number |-> tokenNumber, amount |-> Times100(token.amount)]
\* CreateOrderHandler reserving the token before it calls the gateway
CreateOrderHandler_Reserves(token_number) ==
    LET R(status, text) == Resp("create-order", status, text, token_number,
                                NoBill, Undefined)
        key == IF variant = "part_003"
               THEN sanitizeTokenNumber(token_number) ELSE token_number
    IN
    IF variant = "part_003" /\ token_number = <<>>
    THEN /\ response' = R(400, "Missing token_number")
         /\ UNCHANGED <<paidBills, pendingTokens, orders>>
    ELSE IF ~MapHas(pendingTokens, key)
    THEN /\ response' = R(404, "Token not found")
         /\ UNCHANGED <<paidBills, pendingTokens, orders>>
    ELSE IF MapGet(pendingTokens, key).status # "pending"
    THEN /\ response' = R(400, "Token already paid")
         /\ UNCHANGED <<paidBills, pendingTokens, orders>>
    ELSE /\ orders' = Append(orders, OrderCall(key, MapGet(pendingTokens, key)))
         /\ pendingTokens' =
               MapSet(pendingTokens, key,
                      [MapGet(pendingTokens, key) EXCEPT !.status = "reserved"])
         /\ UNCHANGED <<paidBills, response>>

\* From the request to the await
CreateOrderHandler(token_number) ==
    LET R(status, text) == Resp("create-order", status, text, token_number,
                                NoBill, Undefined)
        key == IF variant = "part_003"
               THEN sanitizeTokenNumber(token_number) ELSE token_number
    IN
    IF variant = "part_003" /\ token_number = <<>>
    THEN /\ response' = R(400, "Missing token_number")
         /\ UNCHANGED <<paidBills, pendingTokens, orders>>
    ELSE IF ~MapHas(pendingTokens, key)
    THEN /\ response' = R(404, "Token not found")
         /\ UNCHANGED <<paidBills, pendingTokens, orders>>
    ELSE IF MapGet(pendingTokens, key).status # "pending"
    THEN /\ response' = R(400, "Token already paid")
         /\ UNCHANGED <<paidBills, pendingTokens, orders>>
    ELSE /\ orders' = Append(orders, OrderCall(key, MapGet(pendingTokens, key)))
         /\ UNCHANGED <<paidBills, pendingTokens, response>>

\* What the gateway does with a call
GatewayOutcomes == {"created", "failed"}

RemoveAt(s, i) == SubSeq(s, 1, i - 1) \o SubSeq(s, i + 1, Len(s))
\* CreateOrderResume taking the created order for the payment
CreateOrderResume_MarksPaid(i, outcome) ==
    LET key == orders[i].token_number
    IN  /\ response' = IF outcome = "created"
                       THEN Resp("create-order", 200, "order", orders[i],
                                 NoBill, Undefined)
                       ELSE Resp("create-order", 500, "Failed to create order",
                                 orders[i].token_number, NoBill, Undefined)
        /\ orders' = RemoveAt(orders, i)
        /\ pendingTokens' =
              IF outcome = "created" /\ MapHas(pendingTokens, key)
              THEN MapSet(pendingTokens, key,
                          [MapGet(pendingTokens, key) EXCEPT !.status = "paid"])
              ELSE pendingTokens
        /\ UNCHANGED paidBills

\* From the await to the response: the order is sent back, or the rejection
\* is caught
CreateOrderResume(i, outcome) ==
    /\ response' = IF outcome = "created"
                   THEN Resp("create-order", 200, "order", orders[i],
                             NoBill, Undefined)
                   ELSE Resp("create-order", 500, "Failed to create order",
                             orders[i].token_number, NoBill, Undefined)
    /\ orders' = RemoveAt(orders, i)
    /\ UNCHANGED <<paidBills, pendingTokens>>

-----------------------------------------------------------------------------
(* GET /test/create-fake-bill (no authentication): in Server.js always, in  *)
(* part_003 when NODE_ENV is 'development', which it is when unset.         *)

\* "pay_test_" + Date.now()
FakePaymentId(t) ==
    <<"pay_test_1", "pay_test_2", "pay_test_3", "pay_test_4">>[t]

\* The query strings the model sends, as <<token, amount>>: a token alone, and
\* a token with an amount beyond the bound
FakeBillRequests == { <<Token9, NoAmount>>, <<Token9, Num(2000000)>> }

FakeBill(paymentId, tokenNumber, amount) ==
    [paymentId |-> paymentId,
     tokenNumber |-> tokenNumber,
     amount |-> [units |-> amount, paise |-> 0],
     items |-> <<"50", "50">>,
     timestamp |-> now,
     printed |-> FALSE,
     printAttempts |-> 0,
     lastPrintAttempt |-> Undefined,
     printConfirmedAt |-> Undefined]

\* parseFloat(req.query.amount) || 100 in Server.js;
\* validateAmount(req.query.amount || 100) in part_003
FakeAmount(amount) == IF amount.present THEN amount.num ELSE 100

CreateFakeBillHandler(token, amount) ==
    LET fakePaymentId == FakePaymentId(now)
        fakeTokenNumber == IF variant = "part_003"
                           THEN sanitizeTokenNumber(token) ELSE token
    IN
    IF variant = "part_003" /\ amount.present /\ ~AmountIsValid(amount)
    THEN /\ response' = Resp("create-fake-bill", 500, "Internal server error",
                             NoPaymentId, NoBill, Undefined)
         /\ UNCHANGED <<paidBills, pendingTokens>>
    ELSE /\ paidBills' = MapSet(paidBills, fakePaymentId,
                                FakeBill(fakePaymentId, fakeTokenNumber,
                                         FakeAmount(amount)))
         /\ response' = Resp("create-fake-bill", 200, "Fake bill created",
                             fakePaymentId, NoBill, Undefined)
         /\ UNCHANGED pendingTokens

-----------------------------------------------------------------------------
(* The comparison of the received signature with the computed one.  A       *)
(* signature is the hex digest as a sequence of digits; the model's digests *)
(* have SigLen digits over three of the sixteen hex digits.                 *)

HexDigits == {"0", "a", "f"}

\* The digest the server computes for the body it received
ExpectedSignature ==
    [i \in 1..SigLen |-> IF i % 3 = 1 THEN "a" ELSE IF i % 3 = 2 THEN "f" ELSE "0"]

\* The x-razorpay-signature headers the model sends: every non-empty string
\* of at most SigLen digits
ReceivedSignatures ==
    UNION {[1..n -> HexDigits] : n \in 1..SigLen}

\* The revisions of the webhook: the two programs of Server.js and part_003
Revisions == Variants \cup {"Server.js#2"}

\* The primitive a revision compares the two signatures with
Comparison(revision) ==
    IF revision = "Server.js#2" THEN "timingSafeEqual" ELSE "!=="

\* The digits a left-to-right comparison looks at before it can tell that
\* the strings differ: none when the lengths differ, else up to the first
\* difference
FirstDifference(a, b) ==
    IF Len(a) # Len(b) THEN 0
    ELSE LET differ == {i \in 1..Len(a) : a[i] # b[i]}
         IN  IF differ = {} THEN Len(a)
             ELSE CHOOSE i \in differ : \A j \in differ : i <= j

\* The work a comparison may take, in digits looked at.  crypto.timingSafeEqual
\* looks at every byte of two buffers of one length (and throws at once when
\* the lengths differ); the language leaves open how !== compares two
\* strings, so it may stop at the first difference or look at every digit.
ComparisonWork(primitive, a, b) ==
    IF primitive = "timingSafeEqual"
    THEN {IF Len(a) # Len(b) THEN 0 ELSE Len(b)}
    ELSE {FirstDifference(a, b), IF Len(a) # Len(b) THEN 0 ELSE Len(b)}

NoComparison == [done |-> FALSE, received |-> <<>>, equal |-> FALSE, work |-> 0]

CompareSignatures(receivedSignature, expectedSignature) ==
    \E work \in ComparisonWork(Comparison(variant), receivedSignature,
                               expectedSignature) :
        compared' = [done |-> TRUE,
                     received |-> receivedSignature,
                     equal |-> receivedSignature = expectedSignature,
                     work |-> work]

-----------------------------------------------------------------------------
(* History variables: they record what happened and steer nothing. *)

Min(a, b) == IF a < b THEN a ELSE b

NoStreak == [body |-> NoBody, n |-> 0]

NoPoll == [paymentId |-> NoPaymentId, printAttempts |-> 0, reset |-> FALSE]

\* a correctly signed, well-formed payment.captured event was delivered
IsDelivery(r) ==
    /\ r.op = "webhook"
    /\ r.req.sig = "valid"
    /\ r.req.body \in CaptureBodies

IndexOf(m, k) == CHOOSE i \in DOMAIN m : m[i].k = k

NextInsertions ==
    [p \in PaymentIds |->
        insertions[p] +
        (IF ~MapHas(paidBills, p) /\ MapHas(paidBills', p) THEN 1 ELSE 0)]

\* A run starts with the delivery that finds no Bill for its payment id and
\* goes on while the same event is delivered again with nothing in between.
NextStreak ==
    IF IsDelivery(response')
    THEN LET b == response'.req.body
         IN  IF streak.n > 0 /\ streak.body = b
             THEN [streak EXCEPT !.n = Min(@ + 1, MaxStreak)]
             ELSE IF ~MapHas(paidBills, b.id)
             THEN [body |-> b, n |-> 1]
             ELSE NoStreak
    ELSE NoStreak

\* The Bill the latest authenticated poll returned, forgotten when that Bill
\* is confirmed; reset tells that /test/mark-unprinted has since reset this
\* Bill or made a Bill stored before it unprinted again.
NextLastPoll ==
    LET r == response'
    IN  IF r.op = "poll" /\ r.status = 200
        THEN [paymentId |-> r.bill.paymentId,
              printAttempts |-> MapGet(paidBills', r.bill.paymentId).printAttempts,
              reset |-> FALSE]
        ELSE IF r.op = "poll" /\ r.status = 204
        THEN NoPoll
        ELSE IF r.op = "confirm" /\ r.status = 200 /\ r.req = lastPoll.paymentId
        THEN NoPoll
        ELSE IF /\ r.op = "mark-unprinted" /\ r.status = 200
                /\ MapHas(paidBills, lastPoll.paymentId)
                /\ IndexOf(paidBills, r.req) <= IndexOf(paidBills, lastPoll.paymentId)
        THEN [lastPoll EXCEPT !.reset = TRUE]
        ELSE lastPoll

\* The scenario: webhook for pay_42 over 12000 minor units on the empty store,
\* poll, confirm pay_42, poll, all within the retention window of the Bill.
\* -1 once any other request has been made.
NextE2E ==
    LET r == response'
        authPoll == r.op = "poll" /\ r.status # 403
        fresh == MapHas(paidBills, "pay_42")
                 /\ now - MapGet(paidBills, "pay_42").timestamp <= BillRetention
    IN  IF e2e = 0 /\ IsDelivery(r) /\ r.req.body.id = "pay_42"
           /\ r.req.body.amount = 12000
        THEN 1
        ELSE IF e2e = 1 /\ authPoll /\ fresh THEN 2
        ELSE IF e2e = 2 /\ r.op = "confirm" /\ r.status # 403
                /\ r.req = "pay_42" THEN 3
        ELSE IF e2e = 3 /\ authPoll /\ fresh THEN 4
        ELSE -1

\* The polls that returned the Bill of a payment id since that Bill was
\* stored or last reset by /test/mark-unprinted
NextPolls ==
    LET r == response'
    IN  [p \in PaymentIds |->
            IF ~MapHas(paidBills', p) \/ ~MapHas(paidBills, p) THEN 0
            ELSE IF r.op = "poll" /\ r.status = 200 /\ r.bill.paymentId = p
            THEN Min(polls[p] + 1, MaxAttempts + 1)
            ELSE IF r.op = "mark-unprinted" /\ r.status = 200 /\ r.req = p
            THEN 0
            ELSE polls[p]]

\* The payment ids for which a confirm has answered 200
NextConfirmed ==
    LET r == response'
    IN  IF r.op = "confirm" /\ r.status = 200
        THEN confirmed \cup {r.req}
        ELSE confirmed

History ==
    /\ insertions' = NextInsertions
    /\ streak' = NextStreak
    /\ lastPoll' = NextLastPoll
    /\ e2e' = NextE2E
    /\ polls' = NextPolls
    /\ confirmed' = NextConfirmed

-----------------------------------------------------------------------------
(* The state machine *)

Init ==
    /\ variant \in Variants
    /\ now = StartTime
    /\ paidBills = <<>>
    /\ pendingTokens = <<>>
    /\ response = Resp("none", 0, "", "", NoBill, Undefined)
    /\ insertions = [p \in PaymentIds |-> 0]
    /\ streak = NoStreak
    /\ lastPoll = NoPoll
    /\ e2e = 0
    /\ polls = [p \in PaymentIds |-> 0]
    /\ confirmed = {}
    /\ orders = <<>>
    /\ compared = NoComparison

Webhook ==
    \E req \in WebhookRequests :
        /\ WebhookHandler(req[1], req[2])
        /\ History
        /\ UNCHANGED <<variant, now, orders, compared>>

\* The environment of the model uses the token registry of part_003 only:
\* against Server.js it sends the bill requests and /test/mark-unprinted.
CreateToken ==
    /\ variant = "part_003"
    /\ \E req \in CreateTokenRequests :
        /\ CreateTokenHandler(req[1], req[2], req[3], req[4])
        /\ History
        /\ UNCHANGED <<variant, now, orders, compared>>

PendingTokens ==
    /\ variant = "part_003"
    /\ PendingTokensHandler
    /\ History
    /\ UNCHANGED <<variant, now, orders, compared>>

Poll ==
    \E headers \in HeaderSets :
        /\ PollWithinBound(headers)
        /\ PollHandler(headers)
        /\ History
        /\ UNCHANGED <<variant, now, orders, compared>>

ConfirmPrint ==
    \E req \in ConfirmRequests :
        /\ ConfirmHandler(req[1], req[2])
        /\ History
        /\ UNCHANGED <<variant, now, orders, compared>>

MarkUnprinted ==
    /\ variant = "Server.js"
    /\ \E paymentId \in PaymentIds \cup {NoPaymentId} :
        /\ MarkUnprintedHandler(paymentId)
        /\ History
        /\ UNCHANGED <<variant, now, orders, compared>>

\* Time passes between requests
Tick ==
    /\ now < MaxTime
    /\ now' = now + 1
    /\ UNCHANGED <<variant, paidBills, pendingTokens, response, insertions,
                   streak, lastPoll, e2e, polls, confirmed, orders, compared>>

Next ==
    \/ Webhook
    \/ CreateToken
    \/ PendingTokens
    \/ Poll
    \/ ConfirmPrint
    \/ MarkUnprinted
    \/ Tick

Spec == Init /\ [][Next]_vars

-----------------------------------------------------------------------------
(* The token-correlated pipeline: registration, listing, webhook and poll in   *)
(* both revisions, with correctly signed events only, a registration under   *)
(* the name the webhook falls back to, and a clock that reaches the token    *)
(* retention window.                                                         *)

Failed42 == Body(TRUE, "payment.failed", TRUE, "pay_42", 12000, <<"7", "-">>)

TokenWebhookRequests ==
    {<<Hmac(RAZORPAY_WEBHOOK_SECRET, b), b>> : b \in CaptureBodies \cup {Failed42}}

TokenRegistrations ==
    CreateTokenRequests \cup { <<BearerHeaders, Unknown, Num(25), <<"bun">> >> }

\* The readings of Date.now() at which requests arrive: the start, two hours
\* later, and 24 and 26 hours after the start
TokenClock ==
    {StartTime, StartTime + 1, StartTime + TokenRetention,
     StartTime + TokenRetention + 1}

TokenWebhook ==
    \E req \in TokenWebhookRequests :
        /\ WebhookHandler(req[1], req[2])
        /\ History
        /\ UNCHANGED <<variant, now, orders, compared>>

TokenCreate ==
    \E req \in TokenRegistrations :
        /\ CreateTokenHandler(req[1], req[2], req[3], req[4])
        /\ History
        /\ UNCHANGED <<variant, now, orders, compared>>

TokenList ==
    /\ PendingTokensHandler
    /\ History
    /\ UNCHANGED <<variant, now, orders, compared>>

TokenPoll ==
    /\ PollWithinBound(KeyHeaders)
    /\ PollHandler(KeyHeaders)
    /\ History
    /\ UNCHANGED <<variant, now, orders, compared>>

TokenTick ==
    /\ \E t \in TokenClock : t > now /\ now' = t
    /\ UNCHANGED <<variant, paidBills, pendingTokens, response, insertions,
                   streak, lastPoll, e2e, polls, confirmed, orders, compared>>

TokenNext ==
    \/ TokenWebhook
    \/ TokenCreate
    \/ TokenList
    \/ TokenPoll
    \/ TokenTick

TokenSpec == Init /\ [][TokenNext]_vars

-----------------------------------------------------------------------------
(* The payment page and the print client side by side: registration,        *)
(* listing, order creation with its suspension on the gateway, webhook,     *)
(* poll and confirm in both revisions, with registrations whose amounts     *)
(* are out of range.                                                        *)

OrderWebhookRequests ==
    { <<Hmac(RAZORPAY_WEBHOOK_SECRET, Capture42), Capture42>>,
      <<NoSignature, Capture42>> }

OrderRegistrations ==
    { <<KeyHeaders, Token7, Num(120), <<"tea">> >>,
      <<KeyHeaders, Token7, Num(0), <<"tea">> >>,
      <<KeyHeaders, Token7, Num(-5), <<"tea">> >>,
      <<KeyHeaders, Token7, Num(2000000), <<"tea">> >>,
      <<KeyHeaders, Token7, NotNumeric, <<"tea">> >>,
      <<KeyHeaders, Token7, NoAmount, <<"tea">> >>,
      <<KeyHeaders, <<>>, Num(120), <<"tea">> >>,
      <<NoHeaders, Token7, Num(120), <<"tea">> >> }

\* The readings of Date.now() at which requests arrive: the start, and four
\* hours later, when a Bill of the start is past its retention
OrderClock == {StartTime, StartTime + 2 * BillRetention}

OrderWebhook ==
    \E req \in OrderWebhookRequests :
        /\ WebhookHandler(req[1], req[2])
        /\ History
        /\ UNCHANGED <<variant, now, orders, compared>>

OrderRegister ==
    \E req \in OrderRegistrations :
        /\ CreateTokenHandler(req[1], req[2], req[3], req[4])
        /\ History
        /\ UNCHANGED <<variant, now, orders, compared>>

OrderList ==
    /\ PendingTokensHandler
    /\ History
    /\ UNCHANGED <<variant, now, orders, compared>>

\* A request runs to its response, or to the await, where it sends nothing yet
OrderCreate ==
    /\ Len(orders) < MaxOrders
    /\ \E token_number \in CreateOrderRequests :
        /\ CreateOrderHandler(token_number)
        /\ IF response' = response
           THEN UNCHANGED <<insertions, streak, lastPoll, e2e, polls, confirmed>>
           ELSE History
        /\ UNCHANGED <<variant, now, compared>>

OrderResume ==
    \E i \in DOMAIN orders, outcome \in GatewayOutcomes :
        /\ CreateOrderResume(i, outcome)
        /\ History
        /\ UNCHANGED <<variant, now, compared>>

OrderPoll ==
    \E headers \in {KeyHeaders, WrongHeaders} :
        /\ PollWithinBound(headers)
        /\ PollHandler(headers)
        /\ History
        /\ UNCHANGED <<variant, now, orders, compared>>

OrderConfirm ==
    /\ ConfirmHandler(KeyHeaders, "pay_42")
    /\ History
    /\ UNCHANGED <<variant, now, orders, compared>>

OrderTick ==
    /\ \E t \in OrderClock : t > now /\ now' = t
    /\ UNCHANGED <<variant, paidBills, pendingTokens, response, insertions,
                   streak, lastPoll, e2e, polls, confirmed, orders, compared>>

OrderNext ==
    \/ OrderWebhook
    \/ OrderRegister
    \/ OrderList
    \/ OrderCreate
    \/ OrderResume
    \/ OrderPoll
    \/ OrderConfirm
    \/ OrderTick

OrderSpec == Init /\ [][OrderNext]_vars

-----------------------------------------------------------------------------
(* The servers with their test endpoints: Server.js, and part_003 started   *)
(* with NODE_ENV unset or 'development'.                                     *)

\* The start, and four hours later
TestClock == {StartTime, StartTime + 2 * BillRetention}

TestWebhook ==
    \E req \in OrderWebhookRequests :
        /\ WebhookHandler(req[1], req[2])
        /\ History
        /\ UNCHANGED <<variant, now, orders, compared>>

TestCreateFakeBill ==
    \E req \in FakeBillRequests :
        /\ CreateFakeBillHandler(req[1], req[2])
        /\ History
        /\ UNCHANGED <<variant, now, orders, compared>>

TestMarkUnprinted ==
    /\ variant = "Server.js"
    /\ \E paymentId \in {"pay_42", NoPaymentId} :
        /\ MarkUnprintedHandler(paymentId)
        /\ History
        /\ UNCHANGED <<variant, now, orders, compared>>

TestPoll ==
    /\ PollWithinBound(KeyHeaders)
    /\ PollHandler(KeyHeaders)
    /\ History
    /\ UNCHANGED <<variant, now, orders, compared>>

TestConfirm ==
    \E paymentId \in {"pay_42", FakePaymentId(StartTime)} :
        /\ ConfirmHandler(KeyHeaders, paymentId)
        /\ History
        /\ UNCHANGED <<variant, now, orders, compared>>

TestTick ==
    /\ \E t \in TestClock : t > now /\ now' = t
    /\ UNCHANGED <<variant, paidBills, pendingTokens, response, insertions,
                   streak, lastPoll, e2e, polls, confirmed, orders, compared>>

TestNext ==
    \/ TestWebhook
    \/ TestCreateFakeBill
    \/ TestMarkUnprinted
    \/ TestPoll
    \/ TestConfirm
    \/ TestTick

TestSpec == Init /\ [][TestNext]_vars

-----------------------------------------------------------------------------
(* The signature check of the webhook on its own, in the three revisions:   *)
(* every received signature is compared with the expected one.              *)

CompareInit ==
    /\ variant \in Revisions
    /\ now = StartTime
    /\ paidBills = <<>>
    /\ pendingTokens = <<>>
    /\ response = Resp("none", 0, "", "", NoBill, Undefined)
    /\ insertions = [p \in PaymentIds |-> 0]
    /\ streak = NoStreak
    /\ lastPoll = NoPoll
    /\ e2e = 0
    /\ polls = [p \in PaymentIds |-> 0]
    /\ confirmed = {}
    /\ orders = <<>>
    /\ compared = NoComparison

Compare ==
    /\ \E receivedSignature \in ReceivedSignatures :
        CompareSignatures(receivedSignature, ExpectedSignature)
    /\ UNCHANGED <<variant, now, paidBills, pendingTokens, response,
                   insertions, streak, lastPoll, e2e, polls, confirmed, orders>>

CompareNext == Compare

CompareSpec == CompareInit /\ [][CompareNext]_vars

-----------------------------------------------------------------------------
(* The print client at work: it polls again and again and confirms every    *)
(* Bill it is handed, while capture events arrive and time passes.          *)

FairWebhookRequests ==
    {<<Hmac(RAZORPAY_WEBHOOK_SECRET, b), b>> : b \in CaptureBodies}

FairWebhook ==
    \E req \in FairWebhookRequests :
        /\ WebhookHandler(req[1], req[2])
        /\ History
        /\ UNCHANGED <<variant, now, orders, compared>>

FairPoll ==
    /\ PollWithinBound(KeyHeaders)
    /\ PollHandler(KeyHeaders)
    /\ History
    /\ UNCHANGED <<variant, now, orders, compared>>

\* The client confirms the Bill its latest poll returned
FairConfirm ==
    /\ lastPoll.paymentId # NoPaymentId
    /\ ConfirmHandler(KeyHeaders, lastPoll.paymentId)
    /\ History
    /\ UNCHANGED <<variant, now, orders, compared>>

FairTick ==
    /\ \E t \in OrderClock : t > now /\ now' = t
    /\ UNCHANGED <<variant, paidBills, pendingTokens, response, insertions,
                   streak, lastPoll, e2e, polls, confirmed, orders, compared>>

FairNext ==
    \/ FairWebhook
    \/ FairPoll
    \/ FairConfirm
    \/ FairTick

FairSpec ==
    Init /\ [][FairNext]_vars /\ WF_vars(FairPoll) /\ WF_vars(FairConfirm)

-----------------------------------------------------------------------------
(* Two payments for one token: the payment page asks for an order twice     *)
(* before either is paid, and the gateway reports both captures.            *)

\* A second payment, pay_1, made for the order of token 7
Capture1ForToken7 ==
    Body(TRUE, "payment.captured", TRUE, "pay_1", 12000, <<"7", "-">>)

\* A token number of 22 characters, 21 of them alphanumeric
LongToken == <<"7", "-">> \o [i \in 1..MaxTokenLen |-> "a"]

\* The payment pay_1 made for the order of the long token number
Capture1ForLongToken ==
    Body(TRUE, "payment.captured", TRUE, "pay_1", 12000, LongToken)

PayWebhookRequests ==
    {<<Hmac(RAZORPAY_WEBHOOK_SECRET, b), b>> :
        b \in {Capture42, Capture1ForToken7, Capture1ForLongToken}}

\* The token numbers the payment page and the print client send
PayTokenNumbers == {Token7, LongToken}

PayRegister ==
    \E token_number \in PayTokenNumbers :
        /\ CreateTokenHandler(KeyHeaders, token_number, Num(120), <<"tea">>)
        /\ History
        /\ UNCHANGED <<variant, now, orders, compared>>

PayCreate ==
    /\ Len(orders) < MaxOrders
    /\ \E token_number \in PayTokenNumbers :
        /\ CreateOrderHandler(token_number)
        /\ IF response' = response
           THEN UNCHANGED <<insertions, streak, lastPoll, e2e, polls, confirmed>>
           ELSE History
        /\ UNCHANGED <<variant, now, compared>>

PayResume ==
    \E i \in DOMAIN orders, outcome \in GatewayOutcomes :
        /\ CreateOrderResume(i, outcome)
        /\ History
        /\ UNCHANGED <<variant, now, compared>>

PayWebhook ==
    \E req \in PayWebhookRequests :
        /\ WebhookHandler(req[1], req[2])
        /\ History
        /\ UNCHANGED <<variant, now, orders, compared>>

PayTick ==
    /\ \E t \in OrderClock : t > now /\ now' = t
    /\ UNCHANGED <<variant, paidBills, pendingTokens, response, insertions,
                   streak, lastPoll, e2e, polls, confirmed, orders, compared>>

PayNext ==
    \/ PayRegister
    \/ PayCreate
    \/ PayResume
    \/ PayWebhook
    \/ PayTick

PaySpec == Init /\ [][PayNext]_vars

-----------------------------------------------------------------------------

(* Vocabulary of the properties *)

Stored(p) == MapHas(paidBills, p)

BillOf(p) == MapGet(paidBills, p)

\* A create-order request reached its await: it has sent no response yet
Suspends == Len(orders') > Len(orders)

\* A step that ran a request handler to its response (Tick is the only step
\* that moves the clock)
RequestStep(op) ==
    now' = now /\ response'.op = op /\ vars' # vars /\ ~Suspends

\* A poll that passed authentication
AuthPollStep == RequestStep("poll") /\ response'.status # 403

Returned(r) == r.op = "poll" /\ r.status = 200

-----------------------------------------------------------------------------
(* C1 *)

\* C1: a Bill for a payment id is inserted at most once ever; after the first
\* accepted capture event every later delivery of it takes the duplicate path,
\* also after polls have run their eviction pass.
C1_InsertedAtMostOnce ==
    /\ \A p \in PaymentIds : insertions[p] <= 1
    /\ (IsDelivery(response) /\ response.text = "success")
           => insertions[response.req.body.id] = 1

-----------------------------------------------------------------------------
(* C2 *)

\* C2: after N >= 1 consecutive deliveries of one valid, correctly signed capture
\* event (the first one finding no Bill for its payment id, nothing in between)
\* the store holds exactly one Bill for that id, unprinted, with no print
\* attempt, and every delivery was answered with success.
C2_IdempotentIngestion ==
    streak.n >= 1 =>
        LET p == streak.body.id
        IN  /\ response.op = "webhook"
            /\ response.status = 200
            /\ Cardinality({i \in DOMAIN paidBills : paidBills[i].k = p}) = 1
            /\ BillOf(p).printed = FALSE
            /\ BillOf(p).printAttempts = 0

C2_Witness ==
    /\ streak.n >= 3
    /\ response.text = "Duplicate"
    /\ Stored(streak.body.id)

-----------------------------------------------------------------------------
(* C8 *)

\* C8: a poll made more than the retention window after a Bill was created
\* never returns that Bill, confirmed or not: the Bill a poll at time t returns
\* was created at t - BillRetention or later.
C8_EvictedBillNotReturned ==
    Returned(response) =>
        response.bill.timestamp >= response.bill.serverTimestamp - BillRetention

\* a poll has run after an unconfirmed Bill for pay_1 outlived the window, and
\* the Bill is gone
C8_Witness ==
    /\ response.op = "poll"
    /\ response.status = 204
    /\ insertions["pay_1"] = 1
    /\ ~Stored("pay_1")
    /\ lastPoll = NoPoll

-----------------------------------------------------------------------------
(* C9 *)

\* C9: on the empty store, a capture webhook for pay_42 over 12000 minor units
\* and then a poll returns a Bill with paymentId pay_42, amount 120 and
\* printAttempts 1; after the confirm of pay_42 the next poll returns no content.
C9_EndToEnd ==
    /\ e2e = 2 =>
          /\ response.status = 200
          /\ response.bill.paymentId = "pay_42"
          /\ response.bill.amount = [units |-> 120, paise |-> 0]
          /\ "printAttempts" \in DOMAIN response.bill
          /\ response.bill.printAttempts = 1
    /\ e2e = 4 => response.status = 204

\* What the scenario does deliver: everything but the attempt count in the
\* answer (the stored count is 1).
C9_EndToEndStored ==
    /\ e2e = 2 =>
          /\ response.status = 200
          /\ response.bill.paymentId = "pay_42"
          /\ response.bill.amount = [units |-> 120, paise |-> 0]
          /\ BillOf("pay_42").printAttempts = 1
    /\ e2e = 4 => response.status = 204

-----------------------------------------------------------------------------
(* C10 *)

\* C10: the projection a poll returns carries the Bill's attempt count, equal
\* to the stored printAttempts after the increment of that poll.
C10_ProjectionHasAttempts ==
    Returned(response) =>
        /\ "printAttempts" \in DOMAIN response.bill
        /\ response.bill.printAttempts =
               BillOf(response.bill.paymentId).printAttempts

-----------------------------------------------------------------------------
(* C3 *)

\* the request of this step was answered "Print confirmed" for payment id p
ConfirmedBy(p) ==
    /\ RequestStep("confirm")
    /\ response'.status = 200
    /\ response'.req = p

\* the request of this step was a successful mark-unprinted of payment id p
UnprintedBy(p) ==
    /\ RequestStep("mark-unprinted")
    /\ response'.status = 200
    /\ response'.req = p

\* a step in which the Bill stored under p stays the same insertion
SameBill(p) ==
    /\ Stored(p)
    /\ MapHas(paidBills', p)
    /\ insertions'[p] = insertions[p]

PrintedRises(p) == SameBill(p) /\ ~BillOf(p).printed /\ MapGet(paidBills', p).printed

PrintedFalls(p) == SameBill(p) /\ BillOf(p).printed /\ ~MapGet(paidBills', p).printed

-----------------------------------------------------------------------------
(* C4 *)

\* the Bill the last poll returned is still stored and inside the retention
\* window at the present time
LastPolledRetained ==
    /\ Stored(lastPoll.paymentId)
    /\ ~IsExpired(BillOf(lastPoll.paymentId), now - BillRetention)

SecondPollReturnsSame ==
    /\ response'.status = 200
    /\ response'.bill.paymentId = lastPoll.paymentId
    /\ MapGet(paidBills', lastPoll.paymentId).printAttempts =
           lastPoll.printAttempts + 1

\* C4 as stated: when a poll has returned Bill B, the next poll, with no
\* confirm of B in between, returns B again with one more print attempt.
C4_UnconfirmedReturnedAgain ==
    [][(lastPoll # NoPoll /\ AuthPollStep) => SecondPollReturnsSame]_vars

\* C4: when a poll has returned Bill B with k print attempts, the next poll,
\* with no confirm of B in between, returns B again with k + 1 print attempts,
\* provided B is still inside the retention window at that poll and no
\* POST /test/mark-unprinted of Server.js has in between reset B or a Bill
\* stored before B.
C4_RetainedReturnedAgain ==
    [][(/\ lastPoll # NoPoll
        /\ ~lastPoll.reset
        /\ LastPolledRetained
        /\ AuthPollStep) => SecondPollReturnsSame]_vars

\* the second poll has returned B with two attempts while another Bill waits
C4_Witness ==
    /\ Returned(response)
    /\ lastPoll.paymentId = response.bill.paymentId
    /\ lastPoll.printAttempts = 2
    /\ ~lastPoll.reset
    /\ Len(paidBills) = 2

-----------------------------------------------------------------------------
(* C5 *)

\* positions of the unprinted Bills a poll at the present time keeps
Candidates ==
    {i \in DOMAIN paidBills :
        /\ ~IsExpired(paidBills[i].v, now - BillRetention)
        /\ ~paidBills[i].v.printed}

\* C5: a poll returns, among the unprinted Bills that survive its eviction
\* pass, the one with the smallest timestamp, and among those of equal
\* timestamp the one inserted first.
C5_OldestFirst ==
    [][(AuthPollStep /\ response'.status = 200) =>
          LET i0 == IndexOf(paidBills, response'.bill.paymentId)
          IN  /\ i0 \in Candidates
              /\ \A j \in Candidates :
                    \/ paidBills[i0].v.timestamp < paidBills[j].v.timestamp
                    \/ /\ paidBills[i0].v.timestamp = paidBills[j].v.timestamp
                       /\ i0 <= j]_vars

\* a poll has returned the older of two unprinted Bills
C5_Witness ==
    /\ Returned(response)
    /\ Len(paidBills) = 2
    /\ ~paidBills[1].v.printed
    /\ ~paidBills[2].v.printed
    /\ paidBills[1].v.timestamp < paidBills[2].v.timestamp
    /\ response.bill.paymentId = paidBills[1].k
    /\ paidBills[2].v.printAttempts = 0

-----------------------------------------------------------------------------
(* C6 *)

\* C6: a poll that returns Bill B adds one to B's printAttempts, sets B's
\* lastPrintAttempt to the time of the poll, leaves every other field of B,
\* printed included, as it was, and changes no field of any other stored Bill.
C6_PollTouchesOnlyReturned ==
    [][(AuthPollStep /\ response'.status = 200) =>
          LET b == response'.bill.paymentId
          IN  /\ Stored(b)
              /\ MapGet(paidBills', b) =
                     [BillOf(b) EXCEPT !.printAttempts = @ + 1,
                                       !.lastPrintAttempt = now]
              /\ \A q \in MapKeys(paidBills') \ {b} :
                    Stored(q) /\ MapGet(paidBills', q) = BillOf(q)]_vars

\* a poll has returned a Bill for the second time, at a later time than the
\* first, while another Bill is stored
C6_Witness ==
    /\ Returned(response)
    /\ Len(paidBills) = 2
    /\ BillOf(response.bill.paymentId).printAttempts = 2
    /\ BillOf(response.bill.paymentId).lastPrintAttempt
           > BillOf(response.bill.paymentId).timestamp

-----------------------------------------------------------------------------
(* C7 *)

\* C7: a confirm of a Bill that is already printed succeeds and leaves the
\* Bill as the first confirm left it, printConfirmedAt included, also when the
\* clock has advanced since.
C7_ConfirmIdempotent ==
    [][\A p \in PaymentIds :
          (Stored(p) /\ BillOf(p).printed
               /\ RequestStep("confirm") /\ response'.req = p) =>
             /\ response'.status = 200
             /\ MapGet(paidBills', p) = BillOf(p)]_vars

\* What a repeated confirm does keep: success, and printed stays true.
C7_ConfirmTwiceSucceeds ==
    [][\A p \in PaymentIds :
          (Stored(p) /\ BillOf(p).printed
               /\ RequestStep("confirm") /\ response'.req = p) =>
             /\ response'.status = 200
             /\ MapGet(paidBills', p).printed]_vars

-----------------------------------------------------------------------------
(* C11 *)

\* C11: for every payment id the recorded printAttempts never goes down: no
\* operation lowers it or resets it to 0.
C11_AttemptsMonotone ==
    [][\A p \in PaymentIds :
          (Stored(p) /\ MapHas(paidBills', p)) =>
              MapGet(paidBills', p).printAttempts >= BillOf(p).printAttempts]_vars

\* What does hold: between two states that both store the Bill, only a
\* successful /test/mark-unprinted of Server.js lowers its printAttempts.
C11_LoweredOnlyByMarkUnprinted ==
    [][\A p \in PaymentIds :
          (/\ Stored(p) /\ MapHas(paidBills', p)
           /\ MapGet(paidBills', p).printAttempts < BillOf(p).printAttempts)
              => (variant = "Server.js" /\ UnprintedBy(p))]_vars

-----------------------------------------------------------------------------
(* C12 *)

TokenStored(t) == MapHas(pendingTokens, t)

TokenOf(t) == MapGet(pendingTokens, t)

\* the token registered under t is marked paid by this step
TokenPaidNow(t) ==
    /\ TokenOf(t).status = "pending"
    /\ MapGet(pendingTokens', t).status = "paid"

\* the token registered under t is pending again after this step
TokenReopened(t) ==
    /\ TokenOf(t).status = "paid"
    /\ MapGet(pendingTokens', t).status = "pending"

\* C12: for every token number the status goes from pending to paid only in a
\* webhook that accepts a capture event, never from paid back to pending, and
\* a registered token leaves the registry only by the eviction of a listing.
C12_TokenStatusOneWay ==
    [][\A t \in MapKeys(pendingTokens) :
          IF MapHas(pendingTokens', t)
          THEN /\ TokenPaidNow(t) =>
                     (RequestStep("webhook") /\ response'.text = "success")
               /\ ~TokenReopened(t)
          ELSE RequestStep("pending-tokens") /\ TokenExpired(TokenOf(t))]_vars

\* What does hold: a paid token becomes pending again only when its token
\* number is registered anew.
C12_ReopenedOnlyByRegistration ==
    [][\A t \in MapKeys(pendingTokens) :
          IF MapHas(pendingTokens', t)
          THEN /\ TokenPaidNow(t) =>
                     (RequestStep("webhook") /\ response'.text = "success")
               /\ TokenReopened(t) =>
                     (RequestStep("create-token") /\ response'.status = 200)
          ELSE RequestStep("pending-tokens") /\ TokenExpired(TokenOf(t))]_vars

-----------------------------------------------------------------------------
(* C13, C14, C15: webhooks that must leave both maps alone *)

\* the request of this step was a webhook
WebhookStep == RequestStep("webhook")

MapsUnchanged == paidBills' = paidBills /\ pendingTokens' = pendingTokens

\* C13: a webhook whose signature header is absent, or is not the HMAC of the
\* raw body under the shared secret, is rejected and changes neither the bill
\* store nor the token registry.
C13_BadSignatureRejected ==
    [][(WebhookStep /\ response'.req.sig \in {"absent", "invalid"}) =>
          /\ response'.status = 400
          /\ response'.text \in {"Missing signature", "Invalid signature"}
          /\ (response'.text = "Missing signature") = (response'.req.sig = "absent")
          /\ MapsUnchanged]_vars

\* a wrongly signed capture event for pay_42 was rejected while pay_1 is stored
C13_Witness ==
    /\ response.op = "webhook"
    /\ response.req.sig = "invalid"
    /\ response.status = 400
    /\ Stored("pay_1")
    /\ ~Stored("pay_42")

\* C14: a correctly signed webhook whose body is not JSON, or is a
\* payment.captured event without the payment entity, is answered with an
\* error and changes neither the bill store nor the token registry.
C14_MalformedRejected ==
    [][(/\ WebhookStep
        /\ response'.req.sig = "valid"
        /\ \/ ~response'.req.body.json
           \/ /\ response'.req.body.event = "payment.captured"
              /\ ~response'.req.body.entity) =>
          /\ response'.status = 400
          /\ response'.text = "Error"
          /\ MapsUnchanged]_vars

\* a signed capture event without entity, naming pay_1, was rejected while no
\* Bill for pay_1 is stored
C14_Witness ==
    /\ response.op = "webhook"
    /\ response.req.sig = "valid"
    /\ response.req.body.json
    /\ ~response.req.body.entity
    /\ response.text = "Error"
    /\ ~Stored("pay_1")

\* C15: a correctly signed webhook of any event type other than
\* payment.captured is answered with success and changes no Bill and no
\* PendingToken, also when it names a stored payment id or a registered token.
C15_OtherEventsIgnored ==
    [][(/\ WebhookStep
        /\ response'.req.sig = "valid"
        /\ response'.req.body.json
        /\ response'.req.body.event # "payment.captured") =>
          /\ response'.status = 200
          /\ response'.text = "OK"
          /\ MapsUnchanged]_vars

\* a payment.failed event for pay_42 and token 7 was acknowledged while token 7
\* is registered and pending and no Bill for pay_42 is stored
C15_Witness ==
    /\ response.op = "webhook"
    /\ response.text = "OK"
    /\ response.req.body.id = "pay_42"
    /\ ~Stored("pay_42")
    /\ TokenStored(<<"7">>)
    /\ TokenOf(<<"7">>).status = "pending"

-----------------------------------------------------------------------------
(* C16 *)

\* The Bill and the registry after a webhook has accepted capture event b,
\* when the token registered under key, if matched, is the one it consumes
AcceptedWith(b, key, matched) ==
    LET bill == MapGet(paidBills', b.id)
    IN  /\ bill.items = IF matched THEN TokenOf(key).items ELSE <<>>
        /\ bill.amount.units * 100 + bill.amount.paise = b.amount
        /\ bill.amount.paise \in 0..99
        /\ matched => MapGet(pendingTokens', key).status = "paid"
        /\ Len(pendingTokens') = Len(pendingTokens)
        /\ \A i \in DOMAIN pendingTokens :
              ~(matched /\ pendingTokens[i].k = key) =>
                  pendingTokens'[i] = pendingTokens[i]

\* C16: when a capture event for a new payment id is accepted, the Bill's
\* items are those of the PendingToken registered under the token number the
\* event carries, or empty when no such token is registered; its amount is the
\* event's minor-unit amount divided by 100; the matching token, if any, is
\* paid afterwards and every other token is unchanged.
C16_TokenCorrelatedBill ==
    [][(WebhookStep /\ response'.text = "success") =>
          LET b == response'.req.body
              key == WebhookTokenNumber(b)
          IN  AcceptedWith(b, key, b.token_number # <<>> /\ TokenStored(key))]_vars

\* What does hold: the same with the lookup made under the name 'Unknown'
\* when the event carries no token number.
C16_LookupUnderFallbackName ==
    [][(WebhookStep /\ response'.text = "success") =>
          LET b == response'.req.body
              key == WebhookTokenNumber(b)
          IN  AcceptedWith(b, key, TokenStored(key))]_vars

-----------------------------------------------------------------------------
(* C17 *)

\* the request of this step was a confirm that passed authentication
AuthConfirmStep == RequestStep("confirm") /\ response'.status # 403

\* C17: an authenticated confirm without a payment id is answered with a
\* validation error, one naming an id with no stored Bill with not found, and
\* neither changes a Bill or a PendingToken.
C17_ConfirmErrors ==
    [][AuthConfirmStep =>
          /\ response'.req = NoPaymentId =>
                 /\ response'.status = 400
                 /\ response'.text = "Missing paymentId"
                 /\ MapsUnchanged
          /\ (response'.req # NoPaymentId /\ ~Stored(response'.req)) =>
                 /\ response'.status = 404
                 /\ response'.text = "Bill not found"
                 /\ MapsUnchanged]_vars

\* a confirm for a Bill that was stored and has been evicted got not found
\* while the other Bill is stored
C17_Witness ==
    /\ response.op = "confirm"
    /\ response.status = 404
    /\ insertions[response.req] = 1
    /\ ~Stored(response.req)
    /\ Len(paidBills) = 1

-----------------------------------------------------------------------------
(* C18 *)

\* C18: the count a successful confirm returns is the number of stored Bills
\* that are unprinted once the confirmation is applied; the confirmed Bill is
\* printed and so not counted.
C18_ConfirmCount ==
    (response.op = "confirm" /\ response.status = 200) =>
        /\ Stored(response.req)
        /\ BillOf(response.req).printed
        /\ response.unprintedBills =
               Cardinality({i \in DOMAIN paidBills : ~paidBills[i].v.printed})

\* a confirm left one other Bill unprinted and answered 1
C18_Witness ==
    /\ response.op = "confirm"
    /\ response.status = 200
    /\ Len(paidBills) = 2
    /\ response.unprintedBills = 1

-----------------------------------------------------------------------------
(* C19 *)

\* C19: an authenticated poll answers no content exactly when no unprinted
\* Bill is left after its eviction pass; it then changes no field of a Bill
\* that stays, and no content is none of the error answers.
C19_EmptyIffNoUnprinted ==
    [][AuthPollStep =>
          /\ response'.status \in {200, 204}
          /\ (response'.status = 204) = (Candidates = {})
          /\ response'.status = 204 =>
                 /\ response'.bill = NoBill
                 /\ \A q \in MapKeys(paidBills') :
                        Stored(q) /\ MapGet(paidBills', q) = BillOf(q)]_vars

\* a poll answered no content while a printed Bill stays stored
C19_Witness ==
    /\ response.op = "poll"
    /\ response.status = 204
    /\ Len(paidBills) >= 1
    /\ \A i \in DOMAIN paidBills : paidBills[i].v.printed

-----------------------------------------------------------------------------
(* C20 *)

\* C20: the eviction pass of an authenticated poll removes every Bill older
\* than the retention window, printed or not, and no Bill within the window;
\* it runs before the selection, so the Bill returned is within the window.
C20_EvictionByAgeOnly ==
    [][AuthPollStep =>
          /\ \A p \in PaymentIds :
                MapHas(paidBills', p) =
                    (Stored(p) /\ now - BillOf(p).timestamp <= BillRetention)
          /\ response'.status = 200 =>
                now - response'.bill.timestamp <= BillRetention]_vars

\* a poll dropped the unconfirmed Bill of pay_1 and returned the Bill of
\* pay_42, which is exactly as old as the window
C20_Witness ==
    /\ Returned(response)
    /\ response.bill.serverTimestamp = now
    /\ response.bill.paymentId = "pay_42"
    /\ now - BillOf("pay_42").timestamp = BillRetention
    /\ insertions["pay_1"] = 1
    /\ ~Stored("pay_1")

-----------------------------------------------------------------------------
(* C21: poll is the only operation that removes Bills.  A step that leaves  *)
(* the store without a payment id it held is an authenticated poll: webhook,*)
(* confirm, token registration, listing and order creation remove nothing,  *)
(* and neither does the passing of time.                                    *)

C21_OnlyPollRemoves ==
    [][ (\E p \in MapKeys(paidBills) : ~MapHas(paidBills', p)) => AuthPollStep ]_vars

\* A Bill is past its retention and still stored after another request than
\* a poll has run
C21_Witness ==
    /\ Stored("pay_42")
    /\ now - BillOf("pay_42").timestamp > BillRetention
    /\ response.op \in {"webhook", "confirm", "create-token", "pending-tokens",
                        "create-order"}

-----------------------------------------------------------------------------
(* C22: the lifecycle of a Bill over all request handlers.  A Bill enters   *)
(* the store only in a webhook that accepts a correctly signed              *)
(* payment.captured event for its payment id; once stored, a poll changes   *)
(* only its printAttempts and lastPrintAttempt and a confirm only its       *)
(* printed and printConfirmedAt, and nothing else changes it; it leaves     *)
(* only in the eviction pass of a poll, when it is older than the           *)
(* retention.                                                               *)

AcceptedCapture(p) ==
    /\ RequestStep("webhook")
    /\ response'.text = "success"
    /\ response'.req.sig = "valid"
    /\ response'.req.body.event = "payment.captured"
    /\ response'.req.body.id = p

ChangedByPoll(b, c) ==
    /\ AuthPollStep
    /\ c = [b EXCEPT !.printAttempts = c.printAttempts,
                     !.lastPrintAttempt = c.lastPrintAttempt]

ChangedByConfirm(b, c) ==
    /\ RequestStep("confirm")
    /\ c = [b EXCEPT !.printed = c.printed,
                     !.printConfirmedAt = c.printConfirmedAt]

C22_BillLifecycle ==
    [][ \A p \in MapKeys(paidBills) \cup MapKeys(paidBills') :
          /\ (~MapHas(paidBills, p) /\ MapHas(paidBills', p)) => AcceptedCapture(p)
          /\ (MapHas(paidBills, p) /\ MapHas(paidBills', p)
              /\ MapGet(paidBills', p) # MapGet(paidBills, p)) =>
                 \/ ChangedByPoll(MapGet(paidBills, p), MapGet(paidBills', p))
                 \/ ChangedByConfirm(MapGet(paidBills, p), MapGet(paidBills', p))
          /\ (MapHas(paidBills, p) /\ ~MapHas(paidBills', p)) =>
                 /\ AuthPollStep
                 /\ IsExpired(MapGet(paidBills, p), now - BillRetention) ]_vars

-----------------------------------------------------------------------------
(* C23: a token listing first removes every PendingToken older than 24      *)
(* hours, paid or not, and removes no token within the window; it then      *)
(* returns exactly the remaining tokens whose status is pending, so no paid *)
(* token and no token older than the window is listed.                      *)

Listed(r) == {r.req[i].token_number : i \in DOMAIN r.req}

C23_ListingEvictsThenLists ==
    [][ RequestStep("pending-tokens") =>
          /\ \A t \in MapKeys(pendingTokens) :
                IF now - MapGet(pendingTokens, t).createdAt > TokenRetention
                THEN ~MapHas(pendingTokens', t)
                ELSE /\ MapHas(pendingTokens', t)
                     /\ MapGet(pendingTokens', t) = MapGet(pendingTokens, t)
          /\ MapKeys(pendingTokens') \subseteq MapKeys(pendingTokens)
          /\ Listed(response') =
                {t \in MapKeys(pendingTokens') :
                    MapGet(pendingTokens', t).status = "pending"}
          /\ Len(response'.req) = Cardinality(Listed(response'))
          /\ \A i \in DOMAIN response'.req :
                LET token == MapGet(pendingTokens', response'.req[i].token_number)
                IN  /\ response'.req[i].amount = token.amount
                    /\ response'.req[i].items = token.items
                    /\ token.status # "paid"
                    /\ now - token.createdAt <= TokenRetention ]_vars

\* A listing ran more than 24 hours after the start: it listed a pending
\* token and kept a paid one, which it did not list
C23_Witness ==
    /\ response.op = "pending-tokens"
    /\ now - StartTime > TokenRetention
    /\ Len(response.req) > 0
    /\ \E t \in MapKeys(pendingTokens) :
          /\ MapGet(pendingTokens, t).status = "paid"
          /\ t \notin Listed(response)

-----------------------------------------------------------------------------
(* C24: a registration whose amount is not a positive number within the     *)
(* bound is rejected before any mutation, so every PendingToken the         *)
(* registry holds has an amount that is a number with 0 < amount <= 1000000.*)

C24_TokenAmountsInRange ==
    \A t \in MapKeys(pendingTokens) :
        LET amount == MapGet(pendingTokens, t).amount
        IN  ~amount.nan /\ amount.num > 0 /\ amount.num <= MaxAmount

\* The same for the revision that validates the amount, where a registration
\* that is turned away (400 or 500) leaves the registry as it was
C24_ValidatedRevisionRejects ==
    [][ variant = "part_003" =>
          /\ C24_TokenAmountsInRange'
          /\ (RequestStep("create-token") /\ response'.status # 200) =>
                MapsUnchanged ]_vars

-----------------------------------------------------------------------------
(* C25: a poll or confirm whose headers carry no API key, or only a wrong   *)
(* one, is answered 403 and changes nothing: no eviction pass runs, no      *)
(* printAttempts or lastPrintAttempt changes and no Bill is marked printed. *)

HeaderValues(headers) ==
    {headers.x_api_key, headers.authorization, headers.x_android_key}

\* Some accepted header carries the shared key, with or without "Bearer "
PresentsKey(headers) ==
    \E h \in HeaderValues(headers) : h.present /\ StripBearer(h) = ANDROID_API_KEY

\* The header sets of the model that carry the key nowhere
KeylessHeaderSets == {headers \in HeaderSets : ~PresentsKey(headers)}

C25_UnauthenticatedChangesNothing ==
    [][ response'.op \in {"poll", "confirm"} =>
          \A headers \in KeylessHeaderSets :
             /\ PollHandler(headers) =>
                   response'.status = 403 /\ MapsUnchanged
             /\ \A paymentId \in PaymentIds \cup {NoPaymentId} :
                   ConfirmHandler(headers, paymentId) =>
                      response'.status = 403 /\ MapsUnchanged ]_vars

\* A poll was turned away while a Bill past its retention was stored
\* unprinted: the eviction pass did not run
C25_Witness ==
    /\ response.op = "poll"
    /\ response.status = 403
    /\ \E p \in PaymentIds :
          /\ Stored(p)
          /\ ~BillOf(p).printed
          /\ IsExpired(BillOf(p), now - BillRetention)

-----------------------------------------------------------------------------
(* C26: a poll or confirm is authenticated whenever the shared key is       *)
(* presented under any one of x-api-key, authorization and x-android-key,   *)
(* with an optional leading "Bearer ", whatever the other accepted headers  *)
(* contain.                                                                 *)

C26_KeyUnderAnyHeader ==
    [][ \A headers \in HeaderSets :
          PresentsKey(headers) =>
             /\ PollHandler(headers) => response'.status # 403
             /\ \A paymentId \in PaymentIds \cup {NoPaymentId} :
                   ConfirmHandler(headers, paymentId) =>
                      response'.status # 403 ]_vars

\* What holds: the first header that is present, in the order x-api-key,
\* authorization, x-android-key, decides
C26_FirstPresentHeaderDecides ==
    [][ \A headers \in HeaderSets :
          LET first == FirstPresent(headers)
              carriesKey == first.present /\ StripBearer(first) = ANDROID_API_KEY
          IN  /\ PollHandler(headers) => (response'.status # 403 <=> carriesKey)
              /\ \A paymentId \in PaymentIds \cup {NoPaymentId} :
                    ConfirmHandler(headers, paymentId) =>
                       (response'.status # 403 <=> carriesKey) ]_vars

-----------------------------------------------------------------------------
(* C27: insert-if-absent in the webhook, select-oldest-and-count in the     *)
(* poll and set-printed in the confirm are atomic with respect to each      *)
(* other: the three handlers run from request to response without           *)
(* suspending, so every interleaving of requests is a sequence of whole     *)
(* handlers.  Under every such sequence of duplicate deliveries, polls and  *)
(* confirms the store holds at most one Bill per payment id, deliveries     *)
(* that arrive at one instant insert exactly one Bill, and the              *)
(* printAttempts of a stored Bill equals the number of polls that returned  *)
(* it: no update is lost.                                                   *)

C27_NoLostUpdate ==
    \A p \in PaymentIds :
        /\ Cardinality({i \in DOMAIN paidBills : paidBills[i].k = p}) <= 1
        /\ now = StartTime => insertions[p] = (IF Stored(p) THEN 1 ELSE 0)
        /\ Stored(p) => BillOf(p).printAttempts = polls[p]

\* The capture event for pay_42 is delivered again at the instant of its
\* first delivery, after two polls returned the Bill and a confirm marked it
C27_Witness ==
    /\ now = StartTime
    /\ response.op = "webhook"
    /\ response.text = "Duplicate"
    /\ Stored("pay_42")
    /\ BillOf("pay_42").printed
    /\ polls["pay_42"] = 2

-----------------------------------------------------------------------------
(* C28: order creation, the only operation that suspends on a call to the   *)
(* payment gateway, changes neither the bill store nor the token registry:  *)
(* not when it runs to the call, and not when it is resumed after the call  *)
(* has completed or failed, whatever webhooks, registrations, listings,     *)
(* polls and confirms have run in between.                                  *)

OrderStep == Suspends \/ RequestStep("create-order")

C28_OrderCreationWritesNothing ==
    [][ OrderStep => MapsUnchanged ]_vars

\* An order was created for a token that a webhook marked paid while the
\* call to the gateway was in flight
C28_Witness ==
    /\ response.op = "create-order"
    /\ response.status = 200
    /\ TokenStored(response.req.token_number)
    /\ TokenOf(response.req.token_number).status = "paid"

-----------------------------------------------------------------------------
(* C29: a PendingToken is marked paid only as a side effect of the webhook  *)
(* accepting a capture event: registration, listing, order creation, poll   *)
(* and confirm never set a token's status to paid.                          *)

C29_PaidOnlyByWebhook ==
    [][ \A t \in MapKeys(pendingTokens) \cap MapKeys(pendingTokens') :
          (TokenOf(t).status # "paid" /\ MapGet(pendingTokens', t).status = "paid")
             => /\ RequestStep("webhook")
                /\ response'.text = "success"
                /\ response'.req.body.event = "payment.captured"
                /\ MapHas(paidBills', response'.req.body.id)
                /\ MapGet(pendingTokens', t).paymentId = response'.req.body.id ]_vars

\* A token was marked paid by the capture of pay_42, and an order creation
\* for it has since been turned away
C29_Witness ==
    /\ \E t \in MapKeys(pendingTokens) :
          /\ TokenOf(t).status = "paid"
          /\ TokenOf(t).paymentId = "pay_42"
    /\ response.op = "create-order"
    /\ response.text = "Token already paid"

-----------------------------------------------------------------------------
(* C30: the webhook compares the received signature with the computed one   *)
(* in constant time: the work of rejecting a wrong signature does not       *)
(* depend on how many of its leading digits are correct, so the work seen   *)
(* for one wrong signature is work that every other wrong signature of the  *)
(* same length can take as well.                                            *)

C30_ConstantTimeComparison ==
    (compared.done /\ ~compared.equal) =>
        \A other \in ReceivedSignatures :
            (other # ExpectedSignature /\ Len(other) = Len(compared.received)) =>
                compared.work \in ComparisonWork(Comparison(variant), other,
                                                 ExpectedSignature)

\* What holds: the second program of Server.js, which compares with
\* crypto.timingSafeEqual, rejects in constant time
C30_ConstantTimeInSecondProgram ==
    variant = "Server.js#2" => C30_ConstantTimeComparison

-----------------------------------------------------------------------------
(* C31: confirmation finally retires a Bill.  Once a confirm for payment id *)
(* p has succeeded, no poll returns a Bill with payment id p, whatever      *)
(* webhook deliveries, polls and confirms follow.                           *)

C31_ConfirmedNeverReturned ==
    Returned(response) => response.bill.paymentId \notin confirmed

\* What holds: a poll returns a confirmed payment id only for a Bill that
\* was inserted anew after the confirmed one was evicted, or, in Server.js,
\* for one that /test/mark-unprinted has reset
C31_ReturnedAgainOnlyAfterReinsertion ==
    [][ (AuthPollStep /\ Returned(response')
         /\ response'.bill.paymentId \in confirmed
         /\ response'.bill.paymentId \in PaymentIds) =>
            \/ insertions[response'.bill.paymentId] > 1
            \/ variant = "Server.js" ]_vars

-----------------------------------------------------------------------------
(* C32: never discarded before confirmation *)

\* The poll of this step evicts the Bill stored for p
EvictedByPoll(p) ==
    /\ AuthPollStep
    /\ IsExpired(BillOf(p), now - BillRetention)

\* The confirm of this step succeeds for p
ConfirmedNow(p) ==
    /\ RequestStep("confirm")
    /\ response'.status = 200
    /\ response'.req = p

\* C32: with a print client that keeps polling and confirms every Bill it is
\* handed, a Bill the webhook inserts starts unprinted, stays stored and
\* unprinted until a confirm for it succeeds or a poll evicts it, and is
\* eventually returned by a poll unless eviction removes it first.
C32_NeverDiscardedBeforeConfirmation ==
    /\ [][ \A p \in PaymentIds :
             /\ (~Stored(p) /\ MapHas(paidBills', p)) =>
                    ~MapGet(paidBills', p).printed
             /\ (Stored(p) /\ ~BillOf(p).printed) =>
                    \/ MapHas(paidBills', p) /\ ~MapGet(paidBills', p).printed
                    \/ ConfirmedNow(p)
                    \/ EvictedByPoll(p) ]_vars
    /\ \A p \in PaymentIds :
          (Stored(p) /\ polls[p] = 0) ~> (~Stored(p) \/ polls[p] > 0)

\* A Bill that waited behind an older one has been handed out in its turn
C32_Witness ==
    /\ Stored("pay_1") /\ Stored("pay_42")
    /\ IndexOf(paidBills, "pay_42") < IndexOf(paidBills, "pay_1")
    /\ BillOf("pay_42").printed
    /\ ~BillOf("pay_1").printed
    /\ polls["pay_1"] > 0
    /\ Returned(response) /\ response.bill.paymentId = "pay_1"

-----------------------------------------------------------------------------
(* C33: head-of-line ordering *)

\* The Bill at position i is unprinted and the poll of this moment keeps it
Waiting(i) ==
    /\ ~paidBills[i].v.printed
    /\ ~IsExpired(paidBills[i].v, now - BillRetention)

\* The Bill at position j was created after the Bill at position i
CreatedAfter(j, i) ==
    \/ paidBills[j].v.timestamp > paidBills[i].v.timestamp
    \/ paidBills[j].v.timestamp = paidBills[i].v.timestamp /\ j > i

\* C33: while a Bill B waits (unprinted, neither confirmed nor evicted by
\* the poll), every poll returns a Bill and never one created after B; the
\* oldest waiting Bill is the one returned, so a younger Bill is delivered
\* only when every Bill created before it is confirmed or evicted.
C33_HeadOfLine ==
    [][ AuthPollStep =>
          \A i \in DOMAIN paidBills :
             Waiting(i) =>
                /\ response'.status = 200
                /\ \A j \in DOMAIN paidBills :
                      CreatedAfter(j, i) =>
                          response'.bill.paymentId # paidBills[j].k
                /\ (\A j \in DOMAIN paidBills :
                       Waiting(j) /\ j # i => CreatedAfter(j, i)) =>
                          response'.bill.paymentId = paidBills[i].k ]_vars

\* the oldest Bill is handed out a second time while a younger one, never
\* handed out, waits behind it
C33_Witness ==
    /\ Returned(response)
    /\ Len(paidBills) >= 2
    /\ response.bill.paymentId = paidBills[1].k
    /\ ~paidBills[1].v.printed
    /\ paidBills[1].v.printAttempts = 2
    /\ ~paidBills[2].v.printed
    /\ paidBills[2].v.printAttempts = 0
    /\ ~IsExpired(paidBills[2].v, now - BillRetention)

-----------------------------------------------------------------------------
(* C34: the stamps of a Bill agree with its flags *)

StampsMatchFlags(bill) ==
    /\ (bill.printConfirmedAt # Undefined) <=> bill.printed
    /\ (bill.lastPrintAttempt # Undefined) <=> (bill.printAttempts >= 1)
    /\ bill.printConfirmedAt # Undefined =>
           bill.printConfirmedAt >= bill.timestamp
    /\ bill.lastPrintAttempt # Undefined =>
           bill.lastPrintAttempt >= bill.timestamp

\* C34: for every stored Bill, printConfirmedAt is set exactly when printed
\* is true, lastPrintAttempt is set exactly when printAttempts >= 1, and a
\* stamp that is set is not earlier than the Bill's creation timestamp.
C34_StampsMatchFlags ==
    \A i \in DOMAIN paidBills : StampsMatchFlags(paidBills[i].v)

\* The same holds in part_003, which has no mark-unprinted
C34_StampsMatchFlagsInPart003 ==
    variant = "part_003" => C34_StampsMatchFlags

-----------------------------------------------------------------------------
(* C35: a registered token is consumed by at most one payment *)

\* The token the capture of this step names was already paid by another
\* payment than p
PaidByAnother(p) ==
    LET tokenNumber == WebhookTokenNumber(response'.req.body)
    IN  /\ TokenStored(tokenNumber)
        /\ TokenOf(tokenNumber).status = "paid"
        /\ TokenOf(tokenNumber).paymentId # p

\* C35: a registered token is consumed by at most one payment: once a capture
\* has taken the token's items into its Bill and marked the token paid, a
\* capture with another payment identifier that carries the same token number
\* creates no Bill with that token's items.
C35_ConsumedByOnePayment ==
    [][ \A p \in PaymentIds :
          (AcceptedCapture(p) /\ PaidByAnother(p)) =>
              MapGet(paidBills', p).items = <<>> ]_vars

-----------------------------------------------------------------------------
(* C36: a capture event without a token number *)

\* C36: a capture event whose notes carry no token number creates a Bill
\* with an empty item list and changes no PendingToken, whatever tokens are
\* registered.
C36_NoTokenNumberTouchesNoToken ==
    [][ \A p \in PaymentIds :
          (AcceptedCapture(p) /\ response'.req.body.token_number = <<>>) =>
              /\ MapGet(paidBills', p).items = <<>>
              /\ pendingTokens' = pendingTokens ]_vars

\* The parts that hold whatever is registered: only the token registered as
\* 'Unknown' can be touched, and with no such token nothing is
C36_OnlyFallbackNameTouched ==
    [][ \A p \in PaymentIds :
          (AcceptedCapture(p) /\ response'.req.body.token_number = <<>>) =>
              /\ \A t \in MapKeys(pendingTokens) \ {Unknown} :
                    /\ MapHas(pendingTokens', t)
                    /\ MapGet(pendingTokens', t) = TokenOf(t)
              /\ ~TokenStored(Unknown) =>
                    /\ MapGet(paidBills', p).items = <<>>
                    /\ pendingTokens' = pendingTokens ]_vars

-----------------------------------------------------------------------------
(* C37: the webhook is all-or-nothing across the two maps *)

\* C37: every webhook request either inserts the new Bill and marks the
\* PendingToken it matches, if one is registered, paid with that payment
\* identifier, or changes neither map: no request ends with the Bill
\* inserted and the matched token not paid, or with a token changed and no
\* Bill inserted.
C37_WebhookAllOrNothing ==
    [][ RequestStep("webhook") =>
          \/ paidBills' = paidBills /\ pendingTokens' = pendingTokens
          \/ LET p == response'.req.body.id
                 t == WebhookTokenNumber(response'.req.body)
             IN  /\ ~Stored(p)
                 /\ MapHas(paidBills', p)
                 /\ Len(paidBills') = Len(paidBills) + 1
                 /\ TokenStored(t) =>
                       /\ MapGet(pendingTokens', t).status = "paid"
                       /\ MapGet(pendingTokens', t).paymentId = p
                 /\ ~TokenStored(t) => pendingTokens' = pendingTokens ]_vars

\* a capture has inserted its Bill and marked its token paid while the
\* token registered as 'Unknown' is still pending
C37_Witness ==
    /\ response.op = "webhook" /\ response.text = "success"
    /\ response.req.body.id = "pay_42"
    /\ Stored("pay_42")
    /\ LET t == WebhookTokenNumber(response.req.body)
       IN  /\ TokenStored(t)
           /\ TokenOf(t).status = "paid"
           /\ TokenOf(t).paymentId = "pay_42"
           /\ BillOf("pay_42").items = TokenOf(t).items
    /\ TokenStored(Unknown)
    /\ TokenOf(Unknown).status = "pending"

-----------------------------------------------------------------------------
(* C38: selection by timestamp and selection by insertion order agree *)

\* The two selection rules pick the same Bill of the store `bills`
SameSelection(bills) ==
    Len(UnprintedBills(bills)) > 0 =>
        SelectBill(UnprintedBills(bills)) = FirstUnprinted(bills)

\* C38: the creation timestamps of the stored Bills are non-decreasing in
\* insertion order, so selecting the unprinted Bill with the smallest
\* timestamp gives the same Bill as selecting the first unprinted Bill in
\* insertion order, on the store as it is and as the poll's eviction leaves
\* it.
C38_TimestampOrderIsInsertionOrder ==
    /\ \A i, j \in DOMAIN paidBills :
          i < j => paidBills[i].v.timestamp <= paidBills[j].v.timestamp
    /\ SameSelection(paidBills)
    /\ SameSelection(EvictOldBills(paidBills, now - BillRetention))

\* a printed Bill, then two unprinted ones created at different times
C38_Witness ==
    /\ Len(paidBills) = 3
    /\ paidBills[1].v.printed
    /\ ~paidBills[2].v.printed
    /\ ~paidBills[3].v.printed
    /\ paidBills[2].v.printAttempts = 1
    /\ paidBills[2].v.timestamp < paidBills[3].v.timestamp
    /\ FirstUnprinted(paidBills) = paidBills[2].v

-----------------------------------------------------------------------------
(* C39: token numbers are stored in their sanitized form *)

\* Only letters and digits, and no longer than 20 characters
Clean(tokenNumber) ==
    /\ Len(tokenNumber) <= MaxTokenLen
    /\ \A i \in DOMAIN tokenNumber : tokenNumber[i] \in AlphaNum

\* C39: in part_003 every key of the token registry, every tokenNumber the
\* webhook stored in a Bill and every token number handed to the gateway is
\* alphanumeric and at most 20 characters long, and a webhook or an
\* order-creation request naming a raw token number is resolved against the
\* token registered under its sanitized form.
C39_TokenNumbersSanitized ==
    /\ [](variant = "part_003" =>
            /\ \A t \in MapKeys(pendingTokens) : Clean(t)
            /\ \A p \in PaymentIds \cap MapKeys(paidBills) :
                  Clean(BillOf(p).tokenNumber)
            /\ \A i \in DOMAIN orders : Clean(orders[i].token_number))
    /\ [][ variant = "part_003" =>
            /\ \A p \in PaymentIds :
                  LET raw == response'.req.body.token_number
                  IN  (/\ AcceptedCapture(p)
                       /\ raw # <<>>
                       /\ TokenStored(sanitizeTokenNumber(raw))) =>
                          /\ MapGet(pendingTokens',
                                    sanitizeTokenNumber(raw)).paymentId = p
                          /\ MapGet(paidBills', p).items =
                                TokenOf(sanitizeTokenNumber(raw)).items
            /\ Suspends =>
                  TokenStored(orders'[Len(orders')].token_number) ]_vars

\* the capture that named the long raw token number has paid the token
\* registered under its first 20 alphanumeric characters
C39_Witness ==
    /\ variant = "part_003"
    /\ response.op = "webhook" /\ response.text = "success"
    /\ response.req.body.token_number = LongToken
    /\ Stored("pay_1")
    /\ Len(BillOf("pay_1").tokenNumber) = MaxTokenLen
    /\ BillOf("pay_1").tokenNumber # LongToken
    /\ TokenStored(BillOf("pay_1").tokenNumber)
    /\ TokenOf(BillOf("pay_1").tokenNumber).paymentId = "pay_1"
    /\ BillOf("pay_1").items = <<"tea">>

====
